---- MODULE Spec2Model ----
(***************************************************************************)
(* The root component App of the gallery browser (src/unnamed/part_000):   *)
(* its React state, the memoised search string finalQuery, the effect that *)
(* reloads the artworks, the event handlers, and the completions of the    *)
(* two asynchronous calls fetchArtworks and generateEnhancedQuery.         *)
(*                                                                         *)
(* One action is one task of the browser's event loop: an event handler    *)
(* (or the continuation of an awaited call), the render React makes of the *)
(* state updates it batched, and the effect that render schedules.         *)
(* A text is a sequence of one-character strings; a nullable value is      *)
(* None or Some(v).                                                        *)
(*                                                                         *)
(* The state updates of one handler or continuation are batched into one   *)
(* render.  The handlers are taken to be callable in every state: whether  *)
(* SearchBar, FilterBar and Pagination disable their controls while        *)
(* isLoading or isGenerating is decided in those components.  A fetch in   *)
(* flight is kept by its page, which its response echoes in the            *)
(* pagination; the query it was issued with is in calls.                   *)
(***************************************************************************)
EXTENDS Integers, Sequences, FiniteSets, TLC

\* ---------------------------------------------------------------- bounds
\* most asynchronous calls (fetchArtworks and generateEnhancedQuery together)
\* in flight at once
MaxInFlight == 2
\* longest list a fetch returns, where every list is tried
MaxArtworks == 3

\* ------------------------------------------------------- nullable values
None == <<>>
Some(v) == <<v>>
Val(o) == o[1]

\* ----------------------------------------------------------------- texts
\* String.prototype.trim, by its two halves
RECURSIVE trimStart(_)
trimStart(t) ==
    IF t # <<>> /\ Head(t) = " " THEN trimStart(Tail(t)) ELSE t
RECURSIVE trimEnd(_)
trimEnd(t) ==
    IF t # <<>> /\ t[Len(t)] = " " THEN trimEnd(SubSeq(t, 1, Len(t) - 1)) ELSE t
trim(t) == trimEnd(trimStart(t))

\* Array.prototype.join(' ')
RECURSIVE join(_)
join(parts) ==
    IF parts = <<>> THEN <<>>
    ELSE IF Len(parts) = 1 THEN parts[1]
    ELSE parts[1] \o <<" ">> \o join(Tail(parts))

\* Boolean(x) of a string | null: null and '' are falsy
Boolean(o) == o # None /\ Val(o) # <<>>

\* ------------------------------------------------------------ the state
VARIABLES
    artworks,         \* Artwork[]
    pagination,       \* Pagination | null
    apiConfig,        \* { iiif_url } | null
    isLoading,
    isGenerating,
    error,            \* string | null
    baseQuery,
    activeFilters,    \* { period, medium, color }, each string | null
    currentPage,
    selectedArtwork,  \* Artwork | null
    finalQuery,       \* the memoised search string of the last render
    fetching,         \* fetchArtworks calls in flight: the page each asked for
    enhancing,        \* generateEnhancedQuery calls in flight: the color each was made for
    last,             \* the task that led here: the handler or completion and its input
    runs,             \* the runs of loadArtworks that task made: <<[query, page], ...>>
    calls,            \* the fetchArtworks calls that task issued
    asked             \* the generateEnhancedQuery calls that task issued

vars == <<artworks, pagination, apiConfig, isLoading, isGenerating, error, baseQuery,
          activeFilters, currentPage, selectedArtwork, finalQuery, fetching, enhancing,
          last, runs, calls, asked>>

\* the initial values of the useState calls
InitialBaseQuery == <<"i", "m", "p", "r", "e", "s", "s", "i", "o", "n", "i", "s", "m">>
InitialFilters == [period |-> None, medium |-> None, color |-> None]

\* the two messages of setError, and the fallback query of handleColorChange
FetchErrorMessage == "Failed to fetch artworks. Please try again later."
GenerationErrorMessage == "AI search enhancement failed. Please try again."
Art == <<"a", "r", "t">>

\* ------------------------------------------------------------ the inputs
Periods == {<<"p">>}
Mediums == {<<"m">>}
Red == <<"r", "e", "d">>
Blue == <<"b", "l", "u", "e">>
Colors == {Red, Blue}
Pages == {1, 2}
\* the texts typed into the search bar, and those the AI returns
Texts == {<<>>, <<" ">>, <<" ", "a", " ">>}
EnhancedQueries == {<<"a">>}

\* Artwork of types.ts, by the two fields the component reads
Artwork(id, image_id) == [id |-> id, image_id |-> image_id]
\* image_id is a string, the empty one too, or null
ArtworkPool ==
    { Artwork(1, Some(<<"x">>)), Artwork(2, None), Artwork(3, Some(<<>>)),
      Artwork(4, Some(<<"y">>)) }
\* the lists a fetch returns
ArtworkLists ==
    { <<>>, <<Artwork(2, None), Artwork(1, Some(<<"x">>)), Artwork(3, Some(<<>>))>> }
\* every list of different artworks of the pool, up to MaxArtworks long
RECURSIVE ListsOfLen(_)
ListsOfLen(n) ==
    IF n = 0 THEN {<<>>}
    ELSE {Append(l, a) : l \in ListsOfLen(n - 1), a \in ArtworkPool}
AllArtworkLists ==
    {l \in UNION {ListsOfLen(n) : n \in 0..MaxArtworks} :
        \A i, j \in 1..Len(l) : i # j => l[i].id # l[j].id}

\* the pagination and config of the ApiResponse to a request for a page
PaginationOf(page) == [total_pages |-> 2, current_page |-> page]
Config == [iiif_url |-> "iiif"]

\* --------------------------------------------------- the state as a value
\* The state a task starts from; it has made no run and issued no call yet.
State ==
    [artworks |-> artworks, pagination |-> pagination, apiConfig |-> apiConfig,
     isLoading |-> isLoading, isGenerating |-> isGenerating, error |-> error,
     baseQuery |-> baseQuery, activeFilters |-> activeFilters,
     currentPage |-> currentPage, selectedArtwork |-> selectedArtwork,
     finalQuery |-> finalQuery, fetching |-> fetching, enhancing |-> enhancing,
     runs |-> <<>>, calls |-> <<>>, asked |-> <<>>]

\* a call in flight completes: it leaves the list
Remove(seq, i) == SubSeq(seq, 1, i - 1) \o SubSeq(seq, i + 1, Len(seq))

Task(op) ==
    [op |-> op, text |-> <<>>, value |-> None, color |-> <<>>, page |-> 0,
     data |-> <<>>]

\* ----------------------------------------------- render, memo and effect
\* finalQueryMemo joining the color filter too
finalQueryWithColor(bq, filters) ==
    LET kept == SelectSeq(<<Some(bq), filters.period, filters.medium, filters.color>>,
                          Boolean)
    IN  trim(join([i \in 1..Len(kept) |-> Val(kept[i])]))

\* finalQuery: [baseQuery, period, medium].filter(Boolean).join(' ').trim()
finalQueryMemo(bq, filters) ==
    LET kept == SelectSeq(<<Some(bq), filters.period, filters.medium>>, Boolean)
    IN  trim(join([i \in 1..Len(kept) |-> Val(kept[i])]))

\* loadArtworks without its guard on the empty query
loadArtworksUnguarded(s, query, page) ==
    [s EXCEPT !.runs = Append(@, [query |-> query, page |-> page]),
              !.isLoading = TRUE, !.error = None,
              !.fetching = Append(@, page),
              !.calls = Append(@, [query |-> query, page |-> page])]

\* loadArtworks up to its await, as the render that made it closed over query
\* and page: the empty query clears the results, any other starts a fetch.
loadArtworks(s, query, page) ==
    LET ran == [s EXCEPT !.runs = Append(@, [query |-> query, page |-> page])]
    IN  IF query = <<>>
        THEN [ran EXCEPT !.artworks = <<>>, !.pagination = None, !.isLoading = FALSE]
        ELSE [ran EXCEPT !.isLoading = TRUE, !.error = None,
                         !.fetching = Append(@, page),
                         !.calls = Append(@, [query |-> query, page |-> page])]

\* useEffect with finalQuery as its only dependency
useEffectOnQuery(prev, s) ==
    IF s.finalQuery # prev.finalQuery
    THEN loadArtworks(s, s.finalQuery, s.currentPage)
    ELSE s

\* useEffect with currentPage as its only dependency
useEffectOnPage(prev, s) ==
    IF s.currentPage # prev.currentPage
    THEN [s EXCEPT !.runs = Append(@, [query |-> s.finalQuery, page |-> s.currentPage]),
                   !.isLoading = TRUE, !.error = None,
                   !.fetching = Append(@, s.currentPage),
                   !.calls = Append(@, [query |-> s.finalQuery, page |-> s.currentPage])]
    ELSE s

\* useEffect(() => { loadArtworks(); }, [loadArtworks]): loadArtworks is a new
\* function exactly when finalQuery or currentPage differ from the render before.
useEffect(prev, s) ==
    IF s.finalQuery # prev.finalQuery \/ s.currentPage # prev.currentPage
    THEN loadArtworks(s, s.finalQuery, s.currentPage)
    ELSE s

\* The render of the batched updates of one task, and its effect.
Render(prev, s) ==
    useEffect(prev, [s EXCEPT !.finalQuery = finalQueryMemo(s.baseQuery, s.activeFilters)])

\* ---------------------------------------------------------- the handlers
\* setBaseQuery clearing the color as well
setBaseQueryClearingColor(s, text) ==
    [s EXCEPT !.baseQuery = text, !.activeFilters = [@ EXCEPT !.color = None]]

setBaseQuery(s, text) == [s EXCEPT !.baseQuery = text]

\* handleSearchSubmit clearing period and medium only
handleSearchSubmitKeepingColor(s) ==
    [s EXCEPT !.activeFilters = [@ EXCEPT !.period = None, !.medium = None],
              !.currentPage = 1]

\* handleSearchSubmit without the reload it forces on page 1
handleSearchSubmitWithoutReload(s) ==
    [s EXCEPT !.activeFilters = [period |-> None, medium |-> None, color |-> None],
              !.currentPage = 1]

handleSearchSubmit(s) ==
    LET cleared == [s EXCEPT !.activeFilters =
                        [period |-> None, medium |-> None, color |-> None]]
    IN  IF s.currentPage # 1
        THEN [cleared EXCEPT !.currentPage = 1]
        ELSE loadArtworks(cleared, s.finalQuery, s.currentPage)

handlePageChange(s, page) == [s EXCEPT !.currentPage = page]

\* handlePeriodChange without the reset of the page
handlePeriodChangeKeepingPage(s, period) ==
    [s EXCEPT !.activeFilters = [@ EXCEPT !.period = period, !.color = None]]

handlePeriodChange(s, period) ==
    [s EXCEPT !.activeFilters = [@ EXCEPT !.period = period, !.color = None],
              !.currentPage = 1]

\* handleMediumChange leaving the color as it is
handleMediumChangeKeepingColor(s, medium) ==
    [s EXCEPT !.activeFilters = [@ EXCEPT !.medium = medium], !.currentPage = 1]

handleMediumChange(s, medium) ==
    [s EXCEPT !.activeFilters = [@ EXCEPT !.medium = medium, !.color = None],
              !.currentPage = 1]

\* handleColorChange without its early return
handleColorChangeAlways(s, color) ==
    [s EXCEPT !.isGenerating = TRUE, !.error = None,
              !.enhancing = Append(@, color),
              !.asked = Append(@, [query |-> s.finalQuery, color |-> color])]

\* handleColorChange up to its await
handleColorChange(s, color) ==
    IF s.activeFilters.color = Some(color)
    THEN [s EXCEPT !.activeFilters = [@ EXCEPT !.color = None]]
    ELSE [s EXCEPT !.isGenerating = TRUE, !.error = None,
                   !.enhancing = Append(@, color),
                   !.asked = Append(@, [query |-> IF s.finalQuery # <<>>
                                                  THEN s.finalQuery ELSE Art,
                                        color |-> color])]

handleArtworkClick(s, artwork) == [s EXCEPT !.selectedArtwork = Some(artwork)]

handleCloseModal(s) == [s EXCEPT !.selectedArtwork = None]

\* ------------------------------------------------------- the completions
\* the filter artwork.image_id !== null
artworksWithImageIds(data) == SelectSeq(data, LAMBDA artwork : artwork.image_id # None)

\* data.data.filter(artwork => artwork.image_id)
artworksWithImages(data) == SelectSeq(data, LAMBDA artwork : Boolean(artwork.image_id))

\* loadArtworks after its await, dropping every response but that of the
\* fetch issued last
fetchResolvedLatestOnly(s, i, data) ==
    IF i = Len(s.fetching)
    THEN [s EXCEPT !.artworks = artworksWithImages(data),
                   !.pagination = Some(PaginationOf(s.fetching[i])),
                   !.apiConfig = Some(Config),
                   !.isLoading = FALSE,
                   !.fetching = Remove(@, i)]
    ELSE [s EXCEPT !.fetching = Remove(@, i)]

\* the try block of loadArtworks without the finally
fetchResolvedKeepingLoading(s, i, data) ==
    [s EXCEPT !.artworks = artworksWithImages(data),
              !.pagination = Some(PaginationOf(s.fetching[i])),
              !.apiConfig = Some(Config),
              !.fetching = Remove(@, i)]

\* loadArtworks after its await: the try block and the finally
fetchResolved(s, i, data) ==
    [s EXCEPT !.artworks = artworksWithImages(data),
              !.pagination = Some(PaginationOf(s.fetching[i])),
              !.apiConfig = Some(Config),
              !.isLoading = FALSE,
              !.fetching = Remove(@, i)]

\* the catch block of loadArtworks without setPagination(null)
fetchRejectedKeepingPagination(s, i) ==
    [s EXCEPT !.error = Some(FetchErrorMessage),
              !.artworks = <<>>,
              !.isLoading = FALSE,
              !.fetching = Remove(@, i)]

\* loadArtworks after its await: the catch block and the finally
fetchRejected(s, i) ==
    [s EXCEPT !.error = Some(FetchErrorMessage),
              !.artworks = <<>>,
              !.pagination = None,
              !.isLoading = FALSE,
              !.fetching = Remove(@, i)]

\* the try block of handleColorChange with a functional update of the filters
enhanceResolvedKeepingFilters(s, i, enhancedQuery) ==
    [s EXCEPT !.baseQuery = enhancedQuery,
              !.activeFilters = [@ EXCEPT !.color = Some(s.enhancing[i])],
              !.currentPage = 1,
              !.isGenerating = FALSE,
              !.enhancing = Remove(@, i)]

\* handleColorChange after its await: the try block and the finally
enhanceResolved(s, i, enhancedQuery) ==
    [s EXCEPT !.baseQuery = enhancedQuery,
              !.activeFilters = [period |-> None, medium |-> None,
                                 color |-> Some(s.enhancing[i])],
              !.currentPage = 1,
              !.isGenerating = FALSE,
              !.enhancing = Remove(@, i)]

\* the catch block of handleColorChange resetting every filter
enhanceRejectedClearingFilters(s, i) ==
    [s EXCEPT !.error = Some(GenerationErrorMessage),
              !.activeFilters = [period |-> None, medium |-> None, color |-> None],
              !.isGenerating = FALSE,
              !.enhancing = Remove(@, i)]

\* handleColorChange after its await: the catch block and the finally
enhanceRejected(s, i) ==
    [s EXCEPT !.error = Some(GenerationErrorMessage),
              !.activeFilters = [@ EXCEPT !.color = None],
              !.isGenerating = FALSE,
              !.enhancing = Remove(@, i)]

\* ----------------------------------------------------------- the actions
\* A task ends with the render of what it changed; the calls in flight stay
\* within the bounds.
Commit(s, task) ==
    \E r \in {Render(State, s)} :
        /\ Len(r.fetching) + Len(r.enhancing) <= MaxInFlight
        /\ artworks' = r.artworks
        /\ pagination' = r.pagination
        /\ apiConfig' = r.apiConfig
        /\ isLoading' = r.isLoading
        /\ isGenerating' = r.isGenerating
        /\ error' = r.error
        /\ baseQuery' = r.baseQuery
        /\ activeFilters' = r.activeFilters
        /\ currentPage' = r.currentPage
        /\ selectedArtwork' = r.selectedArtwork
        /\ finalQuery' = r.finalQuery
        /\ fetching' = r.fetching
        /\ enhancing' = r.enhancing
        /\ runs' = r.runs
        /\ calls' = r.calls
        /\ asked' = r.asked
        /\ last' = task

\* The first render and its effect, which loads the initial query.
Mounted ==
    loadArtworks(
        [artworks |-> <<>>, pagination |-> None, apiConfig |-> None,
         isLoading |-> TRUE, isGenerating |-> FALSE, error |-> None,
         baseQuery |-> InitialBaseQuery, activeFilters |-> InitialFilters,
         currentPage |-> 1, selectedArtwork |-> None,
         finalQuery |-> finalQueryMemo(InitialBaseQuery, InitialFilters),
         fetching |-> <<>>, enhancing |-> <<>>,
         runs |-> <<>>, calls |-> <<>>, asked |-> <<>>],
        finalQueryMemo(InitialBaseQuery, InitialFilters), 1)

Init ==
    /\ artworks = Mounted.artworks
    /\ pagination = Mounted.pagination
    /\ apiConfig = Mounted.apiConfig
    /\ isLoading = Mounted.isLoading
    /\ isGenerating = Mounted.isGenerating
    /\ error = Mounted.error
    /\ baseQuery = Mounted.baseQuery
    /\ activeFilters = Mounted.activeFilters
    /\ currentPage = Mounted.currentPage
    /\ selectedArtwork = Mounted.selectedArtwork
    /\ finalQuery = Mounted.finalQuery
    /\ fetching = Mounted.fetching
    /\ enhancing = Mounted.enhancing
    /\ runs = Mounted.runs
    /\ calls = Mounted.calls
    /\ asked = Mounted.asked
    /\ last = Task("mount")

SetBaseQuery ==
    \E text \in Texts :
        Commit(setBaseQuery(State, text), [Task("setBaseQuery") EXCEPT !.text = text])

SubmitSearch == Commit(handleSearchSubmit(State), Task("submitSearch"))

SetPage ==
    \E page \in Pages :
        Commit(handlePageChange(State, page), [Task("setPage") EXCEPT !.page = page])

SetPeriod ==
    \E period \in {None} \cup {Some(p) : p \in Periods} :
        Commit(handlePeriodChange(State, period),
               [Task("setPeriod") EXCEPT !.value = period])

SetMedium ==
    \E medium \in {None} \cup {Some(m) : m \in Mediums} :
        Commit(handleMediumChange(State, medium),
               [Task("setMedium") EXCEPT !.value = medium])

ToggleColor ==
    \E color \in Colors :
        Commit(handleColorChange(State, color),
               [Task("toggleColor") EXCEPT !.color = color])

SelectArtwork ==
    \E i \in 1..Len(artworks) :
        Commit(handleArtworkClick(State, artworks[i]), Task("selectArtwork"))

ClearSelection == Commit(handleCloseModal(State), Task("clearSelection"))

FetchResolvesWith(lists) ==
    \E i \in 1..Len(fetching), data \in lists :
        Commit(fetchResolved(State, i, data),
               [Task("fetchResolved") EXCEPT !.data = data, !.page = fetching[i]])

FetchResolves == FetchResolvesWith(ArtworkLists)

FetchRejects ==
    \E i \in 1..Len(fetching) :
        Commit(fetchRejected(State, i), [Task("fetchRejected") EXCEPT !.page = fetching[i]])

EnhanceResolves ==
    \E i \in 1..Len(enhancing), enhancedQuery \in EnhancedQueries :
        Commit(enhanceResolved(State, i, enhancedQuery),
               [Task("enhanceResolved") EXCEPT !.text = enhancedQuery,
                                               !.color = enhancing[i]])

EnhanceRejects ==
    \E i \in 1..Len(enhancing) :
        Commit(enhanceRejected(State, i),
               [Task("enhanceRejected") EXCEPT !.color = enhancing[i]])

Next ==
    \/ SetBaseQuery
    \/ SubmitSearch
    \/ SetPage
    \/ SetPeriod
    \/ SetMedium
    \/ ToggleColor
    \/ SelectArtwork
    \/ ClearSelection
    \/ FetchResolves
    \/ FetchRejects
    \/ EnhanceResolves
    \/ EnhanceRejects

Spec == Init /\ [][Next]_vars

\* The fetches alone, each resolving with any list of AllArtworkLists.
FetchResolvesAny == FetchResolvesWith(AllArtworkLists)

NextFetch ==
    \/ SetPage
    \/ SubmitSearch
    \/ FetchResolvesAny
    \/ FetchRejects

SpecFetch == Init /\ [][NextFetch]_vars

\* The paging, submitting and color handlers with the completions, every call
\* in flight resolving or failing in the end.
NextLive ==
    \/ SetPage
    \/ SubmitSearch
    \/ ToggleColor
    \/ FetchResolves
    \/ FetchRejects
    \/ EnhanceResolves
    \/ EnhanceRejects

SpecLive ==
    /\ Init
    /\ [][NextLive]_vars
    /\ WF_vars(FetchResolves \/ FetchRejects)
    /\ WF_vars(EnhanceResolves \/ EnhanceRejects)

\* ------------------------------------------------------------ the claims
NoFilters == [period |-> None, medium |-> None, color |-> None]
Request(query, page) == [query |-> query, page |-> page]

\* C1 as stated: a task of setBaseQuery issues no ArtworkSearchClient call; the
\* call for the new text waits for submitSearch.
C1_SetBaseQueryIssuesNoCall == last.op = "setBaseQuery" => calls = <<>>

\* C1 as amended: setBaseQuery(text) changes the base query alone, and the
\* render that follows runs the fetch lifecycle, once and for the new
\* effective query and the current page, exactly when the effective query
\* changed; an ArtworkSearchClient call is issued then if that query is not
\* empty, and none otherwise.
C1_SetBaseQueryRefetchesOnChange ==
    [][last'.op = "setBaseQuery" =>
        /\ baseQuery' = last'.text
        /\ activeFilters' = activeFilters
        /\ currentPage' = currentPage
        /\ runs' = IF finalQuery' # finalQuery
                   THEN <<Request(finalQuery', currentPage)>> ELSE <<>>
        /\ calls' = IF finalQuery' # finalQuery /\ finalQuery' # <<>>
                    THEN <<Request(finalQuery', currentPage)>> ELSE <<>>]_vars

C1_Witness ==
    /\ last.op = "setBaseQuery"
    /\ calls = <<Request(<<"a">>, currentPage)>>
    /\ baseQuery = <<" ", "a", " ">>

\* C2: submitSearch leaves period, medium and color null and the page 1, and
\* leaves the base query as it was.
C2_SubmitClearsFilters ==
    [][last'.op = "submitSearch" =>
        /\ activeFilters' = NoFilters
        /\ currentPage' = 1
        /\ baseQuery' = baseQuery]_vars

\* a submit that ran the stale query and then the one without the filters
C2_Witness ==
    /\ last.op = "submitSearch"
    /\ Len(runs) = 2
    /\ activeFilters = NoFilters
    /\ currentPage = 1

\* C3: setPeriod(v) and setMedium(v), for v null too, set their field to v,
\* color to null and the page to 1, and leave the other field and the base
\* query as they were.
C3_FilterChangeClearsColor ==
    [][/\ last'.op = "setPeriod" =>
            /\ activeFilters' = [period |-> last'.value,
                                 medium |-> activeFilters.medium, color |-> None]
            /\ currentPage' = 1
            /\ baseQuery' = baseQuery
       /\ last'.op = "setMedium" =>
            /\ activeFilters' = [period |-> activeFilters.period,
                                 medium |-> last'.value, color |-> None]
            /\ currentPage' = 1
            /\ baseQuery' = baseQuery]_vars

\* a medium set beside a period
C3_Witness ==
    /\ last.op = "setMedium"
    /\ last.value # None
    /\ activeFilters.period # None
    /\ Len(runs) = 1
    /\ currentPage = 1

\* C4: toggleColor(c) while c is the active color sets color to null, calls
\* neither QueryEnhancer nor ArtworkSearchClient, leaves the generating flag,
\* and leaves base query, period, medium and page as they were.
C4_DeselectIsPure ==
    [][last'.op = "toggleColor" /\ activeFilters.color = Some(last'.color) =>
        /\ activeFilters' = [activeFilters EXCEPT !.color = None]
        /\ asked' = <<>>
        /\ enhancing' = enhancing
        /\ runs' = <<>>
        /\ calls' = <<>>
        /\ fetching' = fetching
        /\ isGenerating' = isGenerating
        /\ isLoading' = isLoading
        /\ baseQuery' = baseQuery
        /\ currentPage' = currentPage]_vars

\* a toggle that asked nothing of QueryEnhancer: the deselect
C4_Witness ==
    /\ last.op = "toggleColor"
    /\ asked = <<>>
    /\ activeFilters.color = None

\* C5: when the enhancement started by toggleColor(c) succeeds with q, the
\* state has base query q, filters {null, null, c} and page 1, whatever was
\* set before or while it was in flight.
C5_EnhancementApplied ==
    last.op = "enhanceResolved" =>
        /\ baseQuery = last.text
        /\ activeFilters = [period |-> None, medium |-> None, color |-> Some(last.color)]
        /\ currentPage = 1

C5_Witness ==
    /\ last.op = "enhanceResolved"
    /\ baseQuery = <<"a">>
    /\ activeFilters.color = Some(Blue)
    /\ calls # <<>>

\* C6: when an enhancement fails, its completion sets the generation error and
\* color to null, and leaves base query, period, medium, page, results and
\* pagination as they were.
C6_FailedEnhancementRollsBackColor ==
    [][last'.op = "enhanceRejected" =>
        /\ error' = Some(GenerationErrorMessage)
        /\ activeFilters' = [activeFilters EXCEPT !.color = None]
        /\ baseQuery' = baseQuery
        /\ currentPage' = currentPage
        /\ artworks' = artworks
        /\ pagination' = pagination]_vars

\* a failed enhancement with a period, a page and results to keep
C6_Witness ==
    /\ last.op = "enhanceRejected"
    /\ error = Some(GenerationErrorMessage)
    /\ activeFilters.period # None
    /\ currentPage = 2
    /\ artworks # <<>>

\* C7: when a fetch fails, its completion sets the results to the empty list,
\* pagination to null, the error to the fetch error and the loading flag to
\* false, and leaves query, filters and page as they were.
C7_FailedFetchClearsResults ==
    [][last'.op = "fetchRejected" =>
        /\ artworks' = <<>>
        /\ pagination' = None
        /\ error' = Some(FetchErrorMessage)
        /\ isLoading' = FALSE
        /\ baseQuery' = baseQuery
        /\ finalQuery' = finalQuery
        /\ activeFilters' = activeFilters
        /\ currentPage' = currentPage]_vars

\* a failed fetch while another fetch is still in flight
C7_Witness ==
    /\ last.op = "fetchRejected"
    /\ error = Some(FetchErrorMessage)
    /\ fetching # <<>>

\* C8: a run of the fetch lifecycle with the empty effective query issues no
\* ArtworkSearchClient call, and the task that made it ends with the results
\* empty, pagination null and the loading flag false.
C8_EmptyQuerySkipsFetch ==
    /\ calls = SelectSeq(runs, LAMBDA run : run.query # <<>>)
    /\ (\E i \in 1..Len(runs) : runs[i].query = <<>>) =>
            /\ artworks = <<>>
            /\ pagination = None
            /\ isLoading = FALSE

\* a run with the empty query while a fetch for an earlier query is in flight
C8_Witness ==
    /\ runs # <<>>
    /\ runs[Len(runs)].query = <<>>
    /\ fetching # <<>>

\* C9 as stated: after a fetch succeeds the results are the returned list
\* restricted to the entries whose image reference is not null.
C9_KeepsNonNullImages ==
    last.op = "fetchResolved" =>
        artworks = SelectSeq(last.data, LAMBDA artwork : artwork.image_id # None)

\* the indices of a returned list whose image reference is a non-empty string
WithImage(data) ==
    {i \in 1..Len(data) : data[i].image_id # None /\ data[i].image_id # Some(<<>>)}

\* C9 as amended: after a fetch succeeds the results are the returned list
\* restricted to the entries whose image reference is neither null nor the
\* empty string, in the returned order.
C9_KeepsNonEmptyImages ==
    last.op = "fetchResolved" =>
        /\ Len(artworks) = Cardinality(WithImage(last.data))
        /\ \A k \in 1..Len(artworks) :
                \E i \in WithImage(last.data) :
                    /\ Cardinality({j \in WithImage(last.data) : j <= i}) = k
                    /\ artworks[k] = last.data[i]

\* two entries kept in their order and one with an empty image reference dropped
C9_Witness ==
    /\ last.op = "fetchResolved"
    /\ Len(artworks) = 2
    /\ Len(last.data) = 3
    /\ artworks[1].id > artworks[2].id
    /\ \E i \in 1..3 : last.data[i].image_id = Some(<<>>)

\* the parts of the effective query: of base query, period and medium, those
\* that are neither null nor empty
QueryParts ==
    LET period == activeFilters.period
        medium == activeFilters.medium
    IN  (IF baseQuery = <<>> THEN <<>> ELSE <<baseQuery>>)
        \o (IF period = None \/ period = Some(<<>>) THEN <<>> ELSE <<period[1]>>)
        \o (IF medium = None \/ medium = Some(<<>>) THEN <<>> ELSE <<medium[1]>>)
SpaceJoined ==
    LET parts == QueryParts
    IN  CASE Len(parts) = 0 -> <<>>
          [] Len(parts) = 1 -> parts[1]
          [] Len(parts) = 2 -> parts[1] \o <<" ">> \o parts[2]
          [] Len(parts) = 3 -> parts[1] \o <<" ">> \o parts[2] \o <<" ">> \o parts[3]
Spaces(n) == [i \in 1..n |-> " "]

\* C10: the effective query is the single-space join of base query, period
\* and medium, in that order and without those that are null or empty, less
\* its leading and trailing whitespace; the color has no part in it.
C10_EffectiveQueryIsTrimmedJoin ==
    /\ finalQuery = <<>> \/ (finalQuery[1] # " " /\ finalQuery[Len(finalQuery)] # " ")
    /\ \E i, j \in 0..Len(SpaceJoined) :
            SpaceJoined = Spaces(i) \o finalQuery \o Spaces(j)

\* all three parts, and a base query to trim on both sides
C10_Witness ==
    /\ baseQuery = <<" ", "a", " ">>
    /\ activeFilters.period # None
    /\ activeFilters.medium # None
    /\ finalQuery = <<"a", " ", " ", "p", " ", "m">>

\* C11 as stated: setBaseQuery(text) with a text other than the base query
\* leaves the color null.
C11_TypingClearsColor ==
    [][last'.op = "setBaseQuery" /\ last'.text # baseQuery =>
        activeFilters'.color = None]_vars

\* C11 as amended: setBaseQuery(text) leaves the active color as it is, for
\* every text; the color is cleared when submitSearch follows.
C11_TypingKeepsColor ==
    [][/\ last'.op = "setBaseQuery" => activeFilters'.color = activeFilters.color
       /\ last'.op = "submitSearch" => activeFilters'.color = None]_vars

\* a text typed over the query the AI returned, the color still active
C11_Witness ==
    /\ last.op = "setBaseQuery"
    /\ baseQuery = <<" ", "a", " ">>
    /\ activeFilters.color = Some(Red)

\* the last task was the completion of a fetch, or of an enhancement
FetchCompleted == last.op \in {"fetchResolved", "fetchRejected"}
EnhanceCompleted == last.op \in {"enhanceResolved", "enhanceRejected"}
CompletionClearsFlag ==
    /\ FetchCompleted => ~isLoading
    /\ EnhanceCompleted => ~isGenerating
\* both flags are false; the last task started no call
Idle == ~isLoading /\ ~isGenerating
Quiet == calls = <<>> /\ asked = <<>>

\* C12 as stated: every completion of a fetch clears the loading flag and
\* every completion of an enhancement the generating flag, and, every call
\* in flight resolving in the end, a state with both flags false is reached
\* again and again.
C12_AlwaysEventuallyIdle == []CompletionClearsFlag /\ []<>Idle

\* C12 as amended: every completion clears its flag, and, every call in
\* flight resolving in the end, once no task starts a call any more a state
\* with both flags false is reached and kept.
C12_IdleOnceQuiet == []CompletionClearsFlag /\ (<>[]Quiet => <>[]Idle)

\* nothing in flight and both flags false after a failed enhancement
C12_Witness ==
    /\ last.op = "enhanceRejected"
    /\ fetching = <<>>
    /\ enhancing = <<>>
    /\ Idle

\* C13 as stated: submitSearch with a base query other than the empty text
\* issues at least one ArtworkSearchClient call.
C13_SubmitWithNonEmptyBaseFetches ==
    last.op = "submitSearch" /\ baseQuery # <<>> => calls # <<>>

\* C13 as amended: submitSearch with a base query holding a character other
\* than a space issues at least one ArtworkSearchClient call; when the submit
\* changes neither the query nor the filters nor the page, it issues exactly
\* the call for the unchanged query and page 1.
C13_SubmitWithNonBlankBaseFetches ==
    [][/\ last'.op = "submitSearch"
       /\ \E i \in DOMAIN baseQuery : baseQuery[i] # " "
       => /\ calls' # <<>>
          /\ (/\ finalQuery' = finalQuery
              /\ currentPage' = currentPage
              /\ activeFilters' = activeFilters)
             => calls' = <<Request(finalQuery, 1)>>]_vars

\* a submit of a padded text that issued the one call for its trimmed query
C13_Witness ==
    /\ last.op = "submitSearch"
    /\ baseQuery = <<" ", "a", " ">>
    /\ calls = <<Request(<<"a">>, 1)>>

C15_ChangeRunsLifecycleOnce ==
    [][/\ finalQuery' # finalQuery \/ currentPage' # currentPage =>
            Cardinality({i \in DOMAIN runs' :
                            runs'[i] = Request(finalQuery', currentPage')}) = 1
       /\ \/ last'.op \in {"enhanceRejected", "selectArtwork", "clearSelection"}
          \/ last'.op = "toggleColor" /\ activeFilters.color = Some(last'.color)
          => /\ runs' = <<>>
             /\ finalQuery' = finalQuery
             /\ currentPage' = currentPage]_vars

\* a medium chosen on page 2: the one run is for the new query and page 1
C15_Witness ==
    /\ last.op = "setMedium"
    /\ activeFilters.medium # None
    /\ runs = <<Request(finalQuery, 1)>>
    /\ fetching = <<2, 1>>

\* C16: in every state a color that is not null goes with a null period and
\* a null medium.
C16_ColorExcludesPeriodAndMedium ==
    activeFilters.color # None =>
        activeFilters.period = None /\ activeFilters.medium = None

\* a color set by an enhancement that resolved while the fetch of an
\* earlier query was in flight
C16_Witness ==
    /\ last.op = "enhanceResolved"
    /\ activeFilters = [period |-> None, medium |-> None, color |-> Some(Blue)]
    /\ Len(fetching) = 2

\* C17 as stated: in every state with a fetch in flight the loading flag is
\* true.
C17_LoadingWhileFetching == fetching # <<>> => isLoading

\* C17, what the code does: the loading flag is that of the last write; the
\* completion of any fetch leaves it false, whatever is still in flight, and
\* so does a run with the empty query after a call was issued.
C17_LoadingIsLastWrite ==
    /\ FetchCompleted => ~isLoading
    /\ runs # <<>> => isLoading = (runs[Len(runs)].query # <<>>)

\* the fetch of page 1 resolved, the fetch of page 2 is in flight, the flag
\* is false
C17_Witness ==
    /\ last.op = "fetchResolved"
    /\ last.page = 1
    /\ fetching = <<2>>
    /\ ~isLoading

\* C18 as stated: every call issued by a task of submitSearch carries the
\* effective query as the submit left it, and page 1.
C18_SubmitCallsCarryNewQuery ==
    last.op = "submitSearch" =>
        \A i \in DOMAIN calls : calls[i] = Request(finalQuery, 1)

\* C18, what the code does: a submit on page 1 runs the fetch lifecycle first
\* with the effective query of before the submit; the effect runs it with
\* the new query second, when the query changed. A submit on another page
\* makes the one run of the effect.
C18_ForcedReloadCarriesOldQuery ==
    [][last'.op = "submitSearch" =>
        IF currentPage = 1
        THEN /\ runs'[1] = Request(finalQuery, 1)
             /\ Len(runs') = IF finalQuery' # finalQuery THEN 2 ELSE 1
        ELSE runs' = <<Request(finalQuery', 1)>>]_vars

\* a submit that issued two calls, the first with a query still holding the
\* period or medium that the submit cleared
C18_Witness ==
    /\ last.op = "submitSearch"
    /\ Len(calls) = 2
    /\ calls[1].query # finalQuery
    /\ calls[2] = Request(finalQuery, 1)
    /\ finalQuery = baseQuery

\* C19 as stated, for the states a successful fetch ends in: the error is
\* null.
C19_NoErrorAfterSuccess == last.op = "fetchResolved" => error = None

\* C19, what the code does: the completion of a successful fetch leaves the
\* error as it found it.
C19_SuccessKeepsError == [][last'.op = "fetchResolved" => error' = error]_vars

\* the results of a successful fetch next to the error of an enhancement that
\* failed while the fetch was in flight
C19_Witness ==
    /\ last.op = "fetchResolved"
    /\ artworks # <<>>
    /\ error = Some(GenerationErrorMessage)

\* C20 as stated: in every state with the empty effective query the results
\* are empty and pagination is null.
C20_EmptyQueryShowsNothing ==
    finalQuery = <<>> => artworks = <<>> /\ pagination = None

\* C20, what the code does: the task that empties the effective query ends
\* with no results and no pagination, and with the query empty only the
\* completion of a successful fetch brings results or pagination back.
C20_EmptyQueryShowsLateResponse ==
    [][/\ finalQuery' = <<>> /\ finalQuery # <<>> =>
            artworks' = <<>> /\ pagination' = None
       /\ finalQuery' = <<>> /\ finalQuery = <<>>
            /\ (artworks' # artworks \/ pagination' # pagination)
            /\ (artworks' # <<>> \/ pagination' # None)
          => last'.op = "fetchResolved"]_vars

\* the empty query, nothing in flight, and the results of an earlier query
C20_Witness ==
    /\ finalQuery = <<>>
    /\ fetching = <<>>
    /\ last.op = "fetchResolved"
    /\ artworks # <<>>
    /\ pagination # None

====
